---- MODULE Spec2Model ----
(***************************************************************************)
(* A model of the boids simulation of src/src/boids.rs as it is scheduled  *)
(* by src/src/main.rs.                                                     *)
(*                                                                         *)
(* Numbers.  An f32 is modelled as a fixed-point integer: the integer n    *)
(* stands for the real n / Q.  A product or a quotient is the exact        *)
(* result rounded toward zero; a comparison of a length or a distance with *)
(* a scalar is exact (it is made on the squares).  NaN and the infinities  *)
(* are not modelled.  A Duration is an integer number of milliseconds.     *)
(***************************************************************************)
EXTENDS Integers, Sequences, FiniteSets, TLC

(***************************************************************************)
(* Bounds of the model.                                                    *)
(***************************************************************************)
\* fixed-point resolution: 1.0 is the integer Q
Q == 10
\* frames the host loop runs before the model stops the clock
MaxFrames == 2
\* Space key presses (respawns) in a run
MaxRespawns == 1
\* edits of the settings through the resource inspector in a run
MaxEdits == 1

(***************************************************************************)
(* Fixed-point arithmetic.                                                 *)
(***************************************************************************)
Abs(a) == IF a < 0 THEN -a ELSE a

Sign(a) == IF a < 0 THEN -1 ELSE IF a > 0 THEN 1 ELSE 0

\* integer quotient rounded toward zero, for a divisor b > 0
TDiv(a, b) == IF a >= 0 THEN a \div b ELSE -((-a) \div b)

RECURSIVE ISqrt(_)
\* the integer part of the square root of n >= 0
ISqrt(n) ==
    IF n < 2 THEN n
    ELSE LET s == 2 * ISqrt(n \div 4)
         IN  IF (s + 1) * (s + 1) <= n THEN s + 1 ELSE s

\* f32 product and quotient
FMul(a, b) == TDiv(a * b, Q)

FDiv(a, b) == TDiv(a * Q, b)

(***************************************************************************)
(* Vec2 (glam), as used by boids.rs.                                       *)
(***************************************************************************)
Vec2(x, y) == [x |-> x, y |-> y]

ZERO == Vec2(0, 0)

VAdd(a, b) == Vec2(a.x + b.x, a.y + b.y)

VSub(a, b) == Vec2(a.x - b.x, a.y - b.y)

\* vector * scalar and vector / scalar
VMul(v, k) == Vec2(FMul(v.x, k), FMul(v.y, k))

VDiv(v, k) == Vec2(FDiv(v.x, k), FDiv(v.y, k))

LengthSquared(v) == v.x * v.x + v.y * v.y

\* v.length(), rounded toward zero
Length(v) == ISqrt(LengthSquared(v))

\* v.length() > m, decided exactly
LengthGreater(v, m) == m < 0 \/ LengthSquared(v) > m * m

\* a.distance(b), rounded toward zero
Distance(a, b) == Length(VSub(a, b))

\* a.distance(b) < r, decided exactly
DistanceLess(a, b, r) == r > 0 /\ LengthSquared(VSub(a, b)) < r * r

\* a.distance(b) > 0.0
DistancePositive(a, b) == a # b

\* v.normalize() of a vector of non-zero length: each component of v / |v|
Normalize(v) ==
    LET n2 == LengthSquared(v)
    IN  Vec2(Sign(v.x) * ISqrt((v.x * v.x * Q * Q) \div n2),
             Sign(v.y) * ISqrt((v.y * v.y * Q * Q) \div n2))

\* a mutant of limit_vec2: each component is capped, not the length
limit_vec2_PerAxis(vector, max_length) ==
    LET cap(c) == IF Abs(c) > max_length THEN Sign(c) * max_length ELSE c
    IN  Vec2(cap(vector.x), cap(vector.y))

limit_vec2(vector, max_length) ==
    IF LengthGreater(vector, max_length)
    THEN VMul(Normalize(vector), max_length)
    ELSE vector

(***************************************************************************)
(* The neighbour query and the steering forces.  `boids` is the snapshot   *)
(* of all positions (the agent's own included) and `boids2` the snapshot   *)
(* of all <<position, velocity>> pairs, both sequences in query order.     *)
(***************************************************************************)
\* `distance > 0.0 && distance < radius` of the scans in the force functions
InRange(position, other_position, radius) ==
    /\ DistancePositive(position, other_position)
    /\ DistanceLess(position, other_position, radius)

\* a mutant of find_neighbors: the querying agent is not left out
find_neighbors_WithSelf(boid, boids, radius) ==
    LET hit(i) == DistanceLess(boid[2], boids[i][2], radius)
    IN  [i \in {j \in DOMAIN boids : hit(j)} |->
            <<boids[i][1], boids[i][2], Distance(boid[2], boids[i][2])>>]

\* find_neighbors(boid, boids, radius): boid is <<entity, position>>, boids a
\* sequence of such pairs; the result holds, for each index of boids that is
\* pushed, the triple <<entity, position, distance>>
find_neighbors(boid, boids, radius) ==
    LET hit(i) == /\ boid[1] # boids[i][1]
                  /\ DistanceLess(boid[2], boids[i][2], radius)
    IN  [i \in {j \in DOMAIN boids : hit(j)} |->
            <<boids[i][1], boids[i][2], Distance(boid[2], boids[i][2])>>]

RECURSIVE separation_loop(_, _, _, _, _)
\* the loop of get_separation_force from index i on; acc is [force, count]
separation_loop(position, boids, separation_distance, i, acc) ==
    IF i > Len(boids) THEN acc
    ELSE LET other_position == boids[i]
             distance == Distance(position, other_position)
             diff == VDiv(Normalize(VSub(position, other_position)), distance)
         IN  IF InRange(position, other_position, separation_distance)
             THEN separation_loop(position, boids, separation_distance, i + 1,
                      [force |-> VAdd(acc.force, diff), count |-> acc.count + 1])
             ELSE separation_loop(position, boids, separation_distance, i + 1, acc)

\* a mutant of separation_steer: the guard `force.length() > 0.0` is lost
separation_steer_NoGuard(force, velocity) == VSub(force, velocity)

\* `if force.length() > 0.0 { force -= velocity }`
separation_steer(force, velocity) ==
    IF force # ZERO THEN VSub(force, velocity) ELSE force

\* `if count > 0 { force /= count as f32 }`
separation_average(acc) ==
    IF acc.count > 0 THEN VDiv(acc.force, acc.count * Q) ELSE acc.force

get_separation_force(position, velocity, boids, separation_distance) ==
    separation_steer(
        separation_average(
            separation_loop(position, boids, separation_distance, 1,
                            [force |-> ZERO, count |-> 0])),
        velocity)

RECURSIVE alignment_loop(_, _, _, _, _)
\* the loop of get_alignment_force; acc is [average_velocity, count]
alignment_loop(position, boids2, alignment_distance, i, acc) ==
    IF i > Len(boids2) THEN acc
    ELSE IF InRange(position, boids2[i][1], alignment_distance)
         THEN alignment_loop(position, boids2, alignment_distance, i + 1,
                  [average_velocity |-> VAdd(acc.average_velocity, boids2[i][2]),
                   count |-> acc.count + 1])
         ELSE alignment_loop(position, boids2, alignment_distance, i + 1, acc)

\* the end of get_alignment_force, from `if count > 0` on
alignment_steer(acc, velocity) ==
    IF acc.count > 0
    THEN VSub(VDiv(acc.average_velocity, acc.count * Q), velocity)
    ELSE ZERO

get_alignment_force(position, velocity, boids2, alignment_distance) ==
    alignment_steer(
        alignment_loop(position, boids2, alignment_distance, 1,
                       [average_velocity |-> ZERO, count |-> 0]),
        velocity)

get_seek_force(position, velocity, target_point) ==
    IF VSub(target_point, position) = ZERO THEN ZERO
    ELSE VSub(VSub(target_point, position), velocity)

RECURSIVE cohesion_loop(_, _, _, _, _)
\* the loop of get_cohesion_force; acc is [average_position, count]
cohesion_loop(position, boids, cohesion_distance, i, acc) ==
    IF i > Len(boids) THEN acc
    ELSE IF InRange(position, boids[i], cohesion_distance)
         THEN cohesion_loop(position, boids, cohesion_distance, i + 1,
                  [average_position |-> VAdd(acc.average_position, boids[i]),
                   count |-> acc.count + 1])
         ELSE cohesion_loop(position, boids, cohesion_distance, i + 1, acc)

\* `if average_position.length() > 0.0 { get_seek_force(..) } else { ZERO }`
cohesion_seek(position, velocity, average_position) ==
    IF average_position # ZERO
    THEN get_seek_force(position, velocity, average_position)
    ELSE ZERO

\* the end of get_cohesion_force, from `if count > 0` on
cohesion_steer(position, velocity, acc) ==
    IF acc.count > 0
    THEN cohesion_seek(position, velocity,
                       VDiv(acc.average_position, acc.count * Q))
    ELSE ZERO

get_cohesion_force(position, velocity, boids, cohesion_distance) ==
    cohesion_steer(position, velocity,
        cohesion_loop(position, boids, cohesion_distance, 1,
                      [average_position |-> ZERO, count |-> 0]))

(***************************************************************************)
(* BoidSettings.  SettingsA are the defaults of the program scaled to the  *)
(* model's world; SettingsB are values entered through the resource        *)
(* inspector, which main.rs registers for every field of BoidSettings.     *)
(***************************************************************************)
SettingsA ==
    [boid_radius |-> Q, spawn_count |-> 2,
     spawn_min_position |-> -2 * Q, spawn_max_position |-> 2 * Q,
     max_speed |-> (4 * Q) \div 10, max_force |-> (2 * Q) \div 10,
     velocity_time_scale |-> 2 * Q, tick_time |-> 500,
     separation_radius |-> 3 * Q, separation_weight |-> Q,
     collision_weight |-> 0,
     alignment_radius |-> 4 * Q, alignment_weight |-> (8 * Q) \div 10,
     cohesion_radius |-> 4 * Q, cohesion_weight |-> Q \div 10,
     seek_weight |-> Q \div 10,
     boundary_min_x |-> -3 * Q, boundary_max_x |-> 3 * Q,
     boundary_min_y |-> -3 * Q, boundary_max_y |-> 3 * Q,
     boundary_avoidance_factor |-> (9 * Q) \div 10]

\* stronger steering, a collision weight, another tick interval, a narrow band
\* of y, and boundary_min_x above boundary_max_x
SettingsB ==
    [SettingsA EXCEPT !.max_speed = Q, !.max_force = Q \div 2,
                      !.tick_time = 1000, !.collision_weight = Q,
                      !.boid_radius = 2 * Q, !.cohesion_weight = Q,
                      !.seek_weight = Q,
                      !.boundary_min_x = Q, !.boundary_max_x = -Q,
                      !.boundary_min_y = -Q, !.boundary_max_y = Q]

SettingsChoices == {SettingsA, SettingsB}

\* Option<Vec2>
None == <<>>

Some(v) == <<v>>

(***************************************************************************)
(* update: the force-and-velocity computation for one agent (the body of   *)
(* the loop over query.iter_mut()).                                        *)
(***************************************************************************)
\* a mutant of boundary_override: the boundary pushes are added to the sum
boundary_override_Additive(position, acceleration, cfg) ==
    LET dx == (IF position.x < cfg.boundary_min_x THEN cfg.max_force ELSE 0)
              - (IF position.x > cfg.boundary_max_x THEN cfg.max_force ELSE 0)
        dy == (IF position.y < cfg.boundary_min_y THEN cfg.max_force ELSE 0)
              - (IF position.y > cfg.boundary_max_y THEN cfg.max_force ELSE 0)
    IN  Vec2(acceleration.x + dx, acceleration.y + dy)

\* the four `if`s of the boundary avoidance, in the order of the code
boundary_override(position, acceleration, cfg) ==
    LET x1 == IF position.x < cfg.boundary_min_x THEN cfg.max_force
              ELSE acceleration.x
        x2 == IF position.x > cfg.boundary_max_x THEN -cfg.max_force ELSE x1
        y1 == IF position.y < cfg.boundary_min_y THEN cfg.max_force
              ELSE acceleration.y
        y2 == IF position.y > cfg.boundary_max_y THEN -cfg.max_force ELSE y1
    IN  Vec2(x2, y2)

\* the collision force: get_separation_force with the radius settings.boid_radius
collision_force(position, velocity, boids, cfg) ==
    get_separation_force(position, velocity, boids, cfg.boid_radius)

\* the weighted sum of the forces, the seek force included
weighted_sum(position, velocity, boids, boids2, cfg, tgt) ==
    LET separation_force ==
            get_separation_force(position, velocity, boids, cfg.separation_radius)
        alignment_force ==
            get_alignment_force(position, velocity, boids2, cfg.alignment_radius)
        cohesion_force ==
            get_cohesion_force(position, velocity, boids, cfg.cohesion_radius)
        a1 == VMul(separation_force, cfg.separation_weight)
        a2 == VAdd(a1, VMul(alignment_force, cfg.alignment_weight))
        a3 == VAdd(a2, VMul(cohesion_force, cfg.cohesion_weight))
        a4 == VAdd(a3, VMul(collision_force(position, velocity, boids, cfg),
                            cfg.collision_weight))
    IN  IF tgt # None
        THEN VAdd(a4, VMul(get_seek_force(position, velocity, tgt[1]),
                           cfg.seek_weight))
        ELSE a4

\* a mutant of clamp_acceleration: the final clamp is lost
clamp_acceleration_Unclamped(acceleration, cfg) == acceleration

\* acceleration = limit_vec2(acceleration, settings.max_force)
clamp_acceleration(acceleration, cfg) == limit_vec2(acceleration, cfg.max_force)

\* `velocity.0 += acceleration; velocity.0 = limit_vec2(velocity.0, max_speed)`
step_velocity(velocity, acceleration, cfg) ==
    limit_vec2(VAdd(velocity, acceleration), cfg.max_speed)

\* the record of one iteration: sum is the weighted sum, raw the acceleration
\* after the boundary avoidance and before the final clamp, acceleration the
\* vector added to the velocity, velocity the velocity written
step_record(sum, raw, acceleration, velocity) ==
    [sum |-> sum, raw |-> raw, acceleration |-> acceleration,
     velocity |-> velocity]

step_clamped(sum, raw, acceleration, velocity, cfg) ==
    step_record(sum, raw, acceleration, step_velocity(velocity, acceleration, cfg))

step_bounded(sum, raw, velocity, cfg) ==
    step_clamped(sum, raw, clamp_acceleration(raw, cfg), velocity, cfg)

step_summed(sum, position, velocity, cfg) ==
    step_bounded(sum, boundary_override(position, sum, cfg), velocity, cfg)

\* one iteration of the loop of update
update_boid(position, velocity, boids, boids2, cfg, tgt) ==
    step_summed(weighted_sum(position, velocity, boids, boids2, cfg, tgt),
                position, velocity, cfg)

\* a mutant of force_inputs: the forces read the agents as they are now
force_inputs_Live(snapshot, live) == live

\* where an iteration reads the other agents from: the vectors `boids` and
\* `boids2` collected before the loop, not the components being written
force_inputs(snapshot, live) == snapshot

\* query.iter().map(..).collect() over the store, in query order
collect_positions(store, order) ==
    [i \in DOMAIN order |-> store[order[i]].position]

collect_position_velocity(store, order) ==
    [i \in DOMAIN order |-> <<store[order[i]].position, store[order[i]].velocity>>]

\* the iteration for one entity, reading the other agents from source
update_entity(entity, order, store, source, cfg, tgt) ==
    update_boid(store[entity].position, store[entity].velocity,
                collect_positions(source, order),
                collect_position_velocity(source, order), cfg, tgt)

\* a mutant of update_write: the position is moved by the new velocity as well
update_write_MovesPosition(entity, r, store, steps) ==
    [store |-> [store EXCEPT ![entity].velocity = r.velocity,
                             ![entity].position =
                                 VAdd(store[entity].position, r.velocity)],
     log |-> [e \in DOMAIN steps \cup {entity} |->
                 IF e = entity THEN r ELSE steps[e]]]

\* the store and the log after an iteration with the record r
update_write(entity, r, store, steps) ==
    [store |-> [store EXCEPT ![entity].velocity = r.velocity],
     log |-> [e \in DOMAIN steps \cup {entity} |->
                 IF e = entity THEN r ELSE steps[e]]]

RECURSIVE update_loop(_, _, _, _, _, _)
\* the loop over query.iter_mut() from index i of the query order on; acc is
\* [store, log]: the components and the record of each iteration done;
\* snapshot is the store at the start of the fire
update_loop(order, i, acc, snapshot, cfg, tgt) ==
    IF i > Len(order) THEN acc
    ELSE update_loop(order, i + 1,
             update_write(order[i],
                 update_entity(order[i], order, acc.store,
                               force_inputs(snapshot, acc.store), cfg, tgt),
                 acc.store, acc.log),
             snapshot, cfg, tgt)

\* the pass of a fire over the whole population, in the given query order
update_pass(order, store, cfg, tgt) ==
    update_loop(order, 1, [store |-> store, log |-> <<>>], store, cfg, tgt)

\* the orders a query may iterate a set of entities in
QueryOrders(entities) ==
    {o \in [1..Cardinality(entities) -> entities] :
        \A i, j \in DOMAIN o : i # j => o[i] # o[j]}

(***************************************************************************)
(* The repeating timer of BoidTimer (bevy's Timer, TimerMode::Repeating).  *)
(***************************************************************************)
\* Timer::new(Duration::from_millis(ms), TimerMode::Repeating)
timer_new(ms) == [duration |-> ms, elapsed |-> 0, finished |-> FALSE]

\* a mutant of timer_tick: a one-shot timer, which stays finished and stops
timer_tick_Once(timer, delta) ==
    IF timer.finished THEN timer
    ELSE [timer EXCEPT !.elapsed = timer.elapsed + delta,
                       !.finished = timer.elapsed + delta >= timer.duration]

\* timer.0.tick(delta) of a repeating timer with a non-zero duration
timer_tick(timer, delta) ==
    LET elapsed == timer.elapsed + delta
    IN  IF elapsed >= timer.duration
        THEN [timer EXCEPT !.elapsed = elapsed % timer.duration,
                           !.finished = TRUE]
        ELSE [timer EXCEPT !.elapsed = elapsed, !.finished = FALSE]

(***************************************************************************)
(* setup_boids: the rejection sampling of the spawn positions.  The random *)
(* generator is an input: for each slot a stream of candidate positions    *)
(* (`first` for the draws up to `switch`, `then` after them) and the       *)
(* velocity drawn when a candidate is accepted.                            *)
(***************************************************************************)
\* candidates tried for one slot
SpawnAttempts == 10

\* the k-th candidate of a slot
draw(stream, k) == IF k <= stream.switch THEN stream.first ELSE stream.then

\* a mutant of overlapping: the distance is compared with one boid_radius
overlapping_OneRadius(positions, candidate, cfg) ==
    \E i \in DOMAIN positions :
        DistanceLess(positions[i], candidate, cfg.boid_radius)

\* positions.iter().any(|pos| pos.distance(candidate) < boid_radius * 2.0)
overlapping(positions, candidate, cfg) ==
    \E i \in DOMAIN positions :
        DistanceLess(positions[i], candidate, cfg.boid_radius * 2)

RECURSIVE attempt_loop(_, _, _, _)
\* the inner loop `for _ in 0..10` from attempt k on
attempt_loop(positions, stream, cfg, k) ==
    IF k > SpawnAttempts THEN [placed |-> FALSE, tried |-> k - 1]
    ELSE LET candidate == draw(stream, k)
         IN  IF ~overlapping(positions, candidate, cfg)
             THEN [placed |-> TRUE, tried |-> k, candidate |-> candidate]
             ELSE attempt_loop(positions, stream, cfg, k + 1)

RECURSIVE slot_loop(_, _, _, _)
\* the outer loop `for _ in 0..spawn_count` from slot i on; acc is
\* [positions, spawned, tried]: the positions placed, the <<position,
\* velocity>> pairs handed to commands.spawn, the candidates tried per slot
slot_loop(rng, cfg, i, acc) ==
    IF i > cfg.spawn_count THEN acc
    ELSE LET a == attempt_loop(acc.positions, rng[i].stream, cfg, 1)
         IN  IF a.placed
             THEN slot_loop(rng, cfg, i + 1,
                      [positions |-> Append(acc.positions, a.candidate),
                       spawned |-> Append(acc.spawned,
                                          <<a.candidate, rng[i].velocity>>),
                       tried |-> Append(acc.tried, a.tried)])
             ELSE slot_loop(rng, cfg, i + 1,
                      [acc EXCEPT !.tried = Append(acc.tried, a.tried)])

spawn_loop(rng, cfg) ==
    slot_loop(rng, cfg, 1, [positions |-> <<>>, spawned |-> <<>>, tried |-> <<>>])

\* the coordinates gen_range(spawn_min_position..spawn_max_position) is sampled at
SpawnCoordinates(cfg) ==
    {cfg.spawn_min_position,
     (cfg.spawn_min_position + cfg.spawn_max_position) \div 2,
     cfg.spawn_max_position - 1}

\* the values gen_range(-0.5..0.5) is sampled at
VelocityCoordinates == {-(Q \div 2), 0, (Q \div 2) - 1}

\* the generator's draws in the full model: per slot one candidate, drawn
\* again and again; the first slot's candidate is the centre of the region
\* and the velocities are one fixed draw per slot
SimpleDraws(cfg) ==
    LET points == {Vec2(c, c) : c \in SpawnCoordinates(cfg)}
        centre == (cfg.spawn_min_position + cfg.spawn_max_position) \div 2
        velocities == {Vec2(-(Q \div 2), (Q \div 2) - 1), Vec2((Q \div 2) - 1, 0)}
    IN  {rng \in [1..cfg.spawn_count ->
                    {[stream |-> [first |-> p, switch |-> 0, then |-> p],
                      velocity |-> v] : p \in points, v \in velocities}] :
            cfg.spawn_count > 0 =>
                /\ rng[1].stream.then = Vec2(centre, centre)
                /\ rng[1].velocity = Vec2(-(Q \div 2), (Q \div 2) - 1)
                /\ \A i \in 2..cfg.spawn_count :
                       rng[i].velocity = Vec2((Q \div 2) - 1, 0)}

\* the generator's draws in the model of the spawner: per slot the centre of
\* the region, drawn for the first `switch` candidates, then another point
\* (the centre, a point less than 2 * boid_radius from it, or a far corner)
RichDraws(cfg) ==
    LET centre == (cfg.spawn_min_position + cfg.spawn_max_position) \div 2
        points == {Vec2(centre, centre),
                   Vec2(cfg.spawn_max_position - 1, centre),
                   Vec2(cfg.spawn_min_position, cfg.spawn_min_position)}
    IN  [1..cfg.spawn_count ->
            {[stream |-> [first |-> Vec2(centre, centre), switch |-> k, then |-> q],
              velocity |-> Vec2(0, (Q \div 2) - 1)] :
                q \in points, k \in {0, SpawnAttempts - 1}}]

(***************************************************************************)
(* The state of the application.                                           *)
(***************************************************************************)
VARIABLES
    settings,     \* the BoidSettings resource
    world,        \* the Boid entities: entity |-> [position, velocity]
    commands,     \* the deferred Commands not applied yet, in order
    boid_timer,   \* the BoidTimer resource
    time,         \* the Time resource: [delta, elapsed], in milliseconds
    target,       \* the TargetPosition resource: None or Some(point)
    phase,        \* "Startup", "Update" (systems are running) or "Idle"
    log,          \* system |-> what it did, for the systems run in this schedule
    frame,        \* frames begun
    respawns,     \* Space presses so far
    edits,        \* inspector edits so far
    next_entity,  \* the next unused entity id
    population,   \* history: [born, retired, limit, spacing] of the last spawn
    scheduler     \* history: [interval, accumulated] of the tick scheduler

vars == <<settings, world, commands, boid_timer, time, target, phase, log,
          frame, respawns, edits, next_entity, population, scheduler>>

\* the systems main.rs adds to the Update schedule that touch the simulation
UpdateSystems ==
    {"respawn_boids", "update_target_from_mouse_click", "apply_boid_velocity",
     "update"}

\* frame times the host loop may measure, in milliseconds
Deltas == {400, 1200}

\* the world positions a middle click may select
TargetPoints == {Vec2(Q, 0)}

Ran(system) == system \in DOMAIN log

Pending(system) == system \notin DOMAIN log

Record(system, entry) ==
    [s \in DOMAIN log \cup {system} |-> IF s = system THEN entry ELSE log[s]]

Init ==
    /\ settings = SettingsA
    /\ world = <<>>
    /\ commands = <<>>
    /\ boid_timer = timer_new(0)
    /\ time = [delta |-> 0, elapsed |-> 0]
    /\ target = None
    /\ phase = "Startup"
    /\ log = <<>>
    /\ frame = 0
    /\ respawns = 0
    /\ edits = 0
    /\ next_entity = 1
    /\ population = [born |-> {}, retired |-> {}, limit |-> 0, spacing |-> 0]
    /\ scheduler = [interval |-> 0, accumulated |-> 0]

\* the commands setup_boids queues for the agents it places
spawn_commands(spawned, first_entity) ==
    [i \in DOMAIN spawned |->
        [op |-> "spawn", entity |-> first_entity + i - 1,
         position |-> spawned[i][1], velocity |-> spawned[i][2]]]

\* a mutant of despawn_commands: nothing is despawned
despawn_commands_None(store) == <<>>

\* `for entity in boids.iter() { commands.entity(entity).despawn() }`
despawn_commands(store) ==
    LET order == CHOOSE o \in QueryOrders(DOMAIN store) : TRUE
    IN  [i \in DOMAIN order |-> [op |-> "despawn", entity |-> order[i]]]

RECURSIVE apply_commands(_, _)
\* the queue applied to the store, first command first
apply_commands(queue, store) ==
    IF queue = <<>> THEN store
    ELSE LET c == Head(queue)
             next == IF c.op = "spawn"
                     THEN [e \in DOMAIN store \cup {c.entity} |->
                              IF e = c.entity
                              THEN [position |-> c.position, velocity |-> c.velocity]
                              ELSE store[e]]
                     ELSE [e \in DOMAIN store \ {c.entity} |-> store[e]]
         IN  apply_commands(Tail(queue), next)

\* the effect of setup_boids when its loops ended with r = [positions, spawned,
\* tried]: the timer is replaced at once, the spawns are queued behind prefix
setup_boids_effect(r, prefix, system) ==
        /\ boid_timer' = timer_new(settings.tick_time)
        /\ scheduler' = [interval |-> settings.tick_time, accumulated |-> 0]
        /\ commands' = commands \o prefix \o spawn_commands(r.spawned, next_entity)
        /\ next_entity' = next_entity + Len(r.spawned)
        /\ population' =
               [born |-> {next_entity + i - 1 : i \in DOMAIN r.spawned},
                retired |-> population.retired
                            \cup {prefix[i].entity : i \in DOMAIN prefix},
                limit |-> settings.spawn_count,
                spacing |-> settings.boid_radius * 2]
        /\ log' = Record(system,
                         [space |-> TRUE, old |-> DOMAIN world,
                          tried |-> r.tried, positions |-> r.positions,
                          boid_radius |-> settings.boid_radius,
                          spawn_count |-> settings.spawn_count])

setup_boids_body(rng, prefix, system) ==
    setup_boids_effect(spawn_loop(rng, settings), prefix, system)

\* setup_boids as the Startup system
setup_boids ==
    /\ phase = "Startup"
    /\ Pending("setup_boids")
    /\ \E rng \in SimpleDraws(settings) : setup_boids_body(rng, <<>>, "setup_boids")
    /\ UNCHANGED <<settings, world, time, target, phase, frame, respawns, edits>>

\* the deferred commands are applied when the schedule has run its systems
apply_deferred ==
    /\ \/ phase = "Startup" /\ Ran("setup_boids")
       \/ phase = "Update" /\ \A s \in UpdateSystems : Ran(s)
    /\ world' = apply_commands(commands, world)
    /\ commands' = <<>>
    /\ phase' = "Idle"
    /\ log' = [applied |-> Len(commands) > 0]
    /\ UNCHANGED <<settings, boid_timer, time, target, frame, respawns, edits,
                   next_entity, population, scheduler>>

\* a frame begins: Time is advanced by the frame's duration
time_system ==
    /\ phase = "Idle"
    /\ frame < MaxFrames
    /\ \E delta \in Deltas :
           time' = [delta |-> delta, elapsed |-> time.elapsed + delta]
    /\ phase' = "Update"
    /\ log' = <<>>
    /\ frame' = frame + 1
    /\ UNCHANGED <<settings, world, commands, boid_timer, target, respawns,
                   edits, next_entity, population, scheduler>>

\* respawn_boids with the generator's draws taken from Draws
respawn_boids_with(Draws) ==
    /\ phase = "Update"
    /\ Pending("respawn_boids")
    /\ \E space \in BOOLEAN :
        IF space
        THEN /\ respawns < MaxRespawns
             /\ respawns' = respawns + 1
             /\ \E rng \in Draws :
                    setup_boids_body(rng, despawn_commands(world), "respawn_boids")
        ELSE /\ log' = Record("respawn_boids", [space |-> FALSE])
             /\ UNCHANGED <<commands, boid_timer, respawns, next_entity,
                            population, scheduler>>
    /\ UNCHANGED <<settings, world, time, target, phase, frame, edits>>

respawn_boids == respawn_boids_with(SimpleDraws(settings))

\* update_target_from_mouse_click: a right click clears the target, a middle
\* click sets it to the cursor's world position when there is one
update_target_from_mouse_click ==
    /\ phase = "Update"
    /\ Pending("update_target_from_mouse_click")
    /\ \E button \in {"none", "right", "middle"} :
       \E world_position \in {None} \cup {Some(p) : p \in TargetPoints} :
           target' = IF button = "right" THEN None
                     ELSE IF button = "middle" /\ world_position # None
                          THEN world_position
                          ELSE target
    /\ log' = Record("update_target_from_mouse_click", <<>>)
    /\ UNCHANGED <<settings, world, commands, boid_timer, time, phase, frame,
                   respawns, edits, next_entity, population, scheduler>>

\* a mutant of elapsed_time_factor: the time of the frame, not the time since
\* startup
elapsed_time_factor_Delta(clock, cfg) ==
    FMul(TDiv(clock.delta * Q, 1000), cfg.velocity_time_scale)

\* time.elapsed_seconds() * settings.velocity_time_scale
elapsed_time_factor(clock, cfg) ==
    FMul(TDiv(clock.elapsed * Q, 1000), cfg.velocity_time_scale)

\* position.0 += velocity.0 * factor
integrate(position, velocity, factor) == VAdd(position, VMul(velocity, factor))

apply_boid_velocity ==
    /\ phase = "Update"
    /\ Pending("apply_boid_velocity")
    /\ world' = [e \in DOMAIN world |->
                    [world[e] EXCEPT !.position =
                        integrate(world[e].position, world[e].velocity,
                                  elapsed_time_factor(time, settings))]]
    /\ log' = Record("apply_boid_velocity",
                     [before |-> world,
                      factor |-> elapsed_time_factor(time, settings)])
    /\ UNCHANGED <<settings, commands, boid_timer, time, target, phase, frame,
                   respawns, edits, next_entity, population, scheduler>>

\* the effect of a fire whose pass ended with r = [store, log]
update_fire(r, total) ==
    /\ world' = r.store
    /\ log' = Record("update",
                     [fired |-> TRUE, before |-> world, accumulated |-> total,
                      interval |-> scheduler.interval,
                      tick_time |-> settings.tick_time,
                      cfg |-> settings, tgt |-> target, steps |-> r.log])

\* update: the timer is ticked; when it has finished, the pass runs once
update ==
    /\ phase = "Update"
    /\ Pending("update")
    /\ LET ticked == timer_tick(boid_timer, time.delta)
           total == scheduler.accumulated + time.delta
       IN  /\ boid_timer' = ticked
           /\ scheduler' =
                  [scheduler EXCEPT !.accumulated =
                      IF total >= scheduler.interval
                      THEN total % scheduler.interval ELSE total]
           /\ IF ~ticked.finished
              THEN /\ world' = world
                   /\ log' = Record("update",
                                [fired |-> FALSE, before |-> world,
                                 accumulated |-> total,
                                 interval |-> scheduler.interval,
                                 tick_time |-> settings.tick_time])
              ELSE \E order \in QueryOrders(DOMAIN world) :
                     update_fire(update_pass(order, world, settings, target),
                                 total)
    /\ UNCHANGED <<settings, commands, time, target, phase, frame, respawns,
                   edits, next_entity, population>>

\* the resource inspector writes new values into BoidSettings
inspector_edit ==
    /\ phase = "Update"
    /\ edits < MaxEdits
    /\ edits' = edits + 1
    /\ \E cfg \in SettingsChoices \ {settings} : settings' = cfg
    /\ UNCHANGED <<world, commands, boid_timer, time, target, phase, log, frame,
                   respawns, next_entity, population, scheduler>>

Next ==
    \/ setup_boids
    \/ apply_deferred
    \/ time_system
    \/ respawn_boids
    \/ update_target_from_mouse_click
    \/ apply_boid_velocity
    \/ update
    \/ inspector_edit

Spec == Init /\ [][Next]_vars

(***************************************************************************)
(* The application with the spawner's random draws enumerated more widely  *)
(* (and the settings left as they are).                                    *)
(***************************************************************************)
setup_boids_rich ==
    /\ phase = "Startup"
    /\ Pending("setup_boids")
    /\ \E rng \in RichDraws(settings) : setup_boids_body(rng, <<>>, "setup_boids")
    /\ UNCHANGED <<settings, world, time, target, phase, frame, respawns, edits>>

respawn_boids_rich == respawn_boids_with(RichDraws(settings))

NextSpawn ==
    \/ setup_boids_rich
    \/ apply_deferred
    \/ time_system
    \/ respawn_boids_rich
    \/ update_target_from_mouse_click
    \/ apply_boid_velocity
    \/ update

SpecSpawn == Init /\ [][NextSpawn]_vars

(***************************************************************************)
(* The application with settings entered in the inspector that make no     *)
(* physical sense.  rand's gen_range panics when its range is empty, and a *)
(* panic in a system ends the application: phase "Panicked".               *)
(***************************************************************************)
\* an empty spawn region: spawn_min_position above spawn_max_position
SettingsC ==
    [SettingsA EXCEPT !.spawn_min_position = Q, !.spawn_max_position = -Q]

\* zero limits, a negative and a zero radius, boundary_min above boundary_max
SettingsD ==
    [SettingsA EXCEPT !.max_speed = 0, !.max_force = 0, !.boid_radius = -Q,
                      !.separation_radius = 0,
                      !.boundary_min_y = Q, !.boundary_max_y = -Q]

ConfigChoices == {SettingsC, SettingsD}

\* rng.gen_range(low..high) panics when low >= high
gen_range_panics(low, high) == low >= high

\* setup_boids reaches its first gen_range when there is a slot to fill
setup_boids_panics(cfg) ==
    /\ cfg.spawn_count > 0
    /\ gen_range_panics(cfg.spawn_min_position, cfg.spawn_max_position)

\* respawn_boids when Space is pressed and setup_boids panics: the despawns
\* are queued and the timer is replaced before the first draw
respawn_boids_panic ==
    /\ phase = "Update"
    /\ Pending("respawn_boids")
    /\ setup_boids_panics(settings)
    /\ respawns < MaxRespawns
    /\ respawns' = respawns + 1
    /\ commands' = commands \o despawn_commands(world)
    /\ boid_timer' = timer_new(settings.tick_time)
    /\ scheduler' = [interval |-> settings.tick_time, accumulated |-> 0]
    /\ log' = Record("respawn_boids", [space |-> TRUE, panicked |-> TRUE])
    /\ phase' = "Panicked"
    /\ UNCHANGED <<settings, world, time, target, frame, edits, next_entity,
                   population>>

\* respawn_boids when Space is not pressed
respawn_boids_idle ==
    /\ phase = "Update"
    /\ Pending("respawn_boids")
    /\ log' = Record("respawn_boids", [space |-> FALSE])
    /\ UNCHANGED <<settings, world, commands, boid_timer, time, target, phase,
                   frame, respawns, edits, next_entity, population, scheduler>>

respawn_boids_config ==
    \/ ~setup_boids_panics(settings) /\ respawn_boids
    \/ setup_boids_panics(settings) /\ respawn_boids_idle
    \/ respawn_boids_panic

\* the resource inspector writes such values into BoidSettings
inspector_edit_config ==
    /\ phase = "Update"
    /\ edits < MaxEdits
    /\ edits' = edits + 1
    /\ \E cfg \in ConfigChoices \ {settings} : settings' = cfg
    /\ UNCHANGED <<world, commands, boid_timer, time, target, phase, log, frame,
                   respawns, next_entity, population, scheduler>>

NextConfig ==
    \/ setup_boids
    \/ apply_deferred
    \/ time_system
    \/ respawn_boids_config
    \/ update_target_from_mouse_click
    \/ apply_boid_velocity
    \/ update
    \/ inspector_edit_config

SpecConfig == Init /\ [][NextConfig]_vars

(***************************************************************************)
(* The neighbour query as a function of its inputs: a population of three  *)
(* agents at positions that may coincide, a querying agent and a radius.   *)
(***************************************************************************)
QueryEntities == {1, 2, 3}

QueryPositions == {ZERO, Vec2(Q, 0), Vec2(0, 3 * Q), Vec2(3 * Q, 4 * Q)}

QueryRadii == {0, Q, 3 * Q, 5 * Q + 1}

InitQuery ==
    /\ settings = SettingsA
    /\ world \in [QueryEntities ->
                    [position : QueryPositions, velocity : {Vec2(1, 0)}]]
    /\ commands = <<>>
    /\ boid_timer = timer_new(0)
    /\ time = [delta |-> 0, elapsed |-> 0]
    /\ target = None
    /\ phase = "Query"
    /\ log = <<>>
    /\ frame = 0
    /\ respawns = 0
    /\ edits = 0
    /\ next_entity = 4
    /\ population = [born |-> QueryEntities, retired |-> {}, limit |-> 3,
                     spacing |-> 0]
    /\ scheduler = [interval |-> 0, accumulated |-> 0]

\* the list of <<entity, position>> pairs a caller collects, in query order
collect_entity_position(store, order) ==
    [i \in DOMAIN order |-> <<order[i], store[order[i]].position>>]

\* what the query and the scans of the three force functions select for the
\* agent `entity` and the radius
query_record(entity, radius, order) ==
    [entity |-> entity, radius |-> radius, order |-> order,
     neighbors |-> find_neighbors(<<entity, world[entity].position>>,
                                  collect_entity_position(world, order), radius),
     separation |-> separation_loop(world[entity].position,
                                    collect_positions(world, order), radius, 1,
                                    [force |-> ZERO, count |-> 0]).count,
     alignment |-> alignment_loop(world[entity].position,
                                  collect_position_velocity(world, order),
                                  radius, 1,
                                  [average_velocity |-> ZERO, count |-> 0]).count,
     cohesion |-> cohesion_loop(world[entity].position,
                                collect_positions(world, order), radius, 1,
                                [average_position |-> ZERO, count |-> 0]).count]

query ==
    /\ phase = "Query"
    /\ \E entity \in DOMAIN world, radius \in QueryRadii,
          order \in QueryOrders(DOMAIN world) :
           log' = query_record(entity, radius, order)
    /\ phase' = "Queried"
    /\ UNCHANGED <<settings, world, commands, boid_timer, time, target, frame,
                   respawns, edits, next_entity, population, scheduler>>

NextQuery == query

SpecQuery == InitQuery /\ [][NextQuery]_vars

(***************************************************************************)
(* Properties of a fire of update.                                         *)
(***************************************************************************)
\* update has run in this frame and its timer had finished
Fired == phase = "Update" /\ Ran("update") /\ log["update"].fired

\* C1: after a fire of update, every agent's velocity has a magnitude of at
\* most the max_speed the fire ran with
C1_VelocityWithinMaxSpeed ==
    Fired =>
        \A e \in DOMAIN world :
            LengthSquared(world[e].velocity)
                <= log["update"].cfg.max_speed * log["update"].cfg.max_speed

\* a fire in which the clamp to max_speed shortened an agent's velocity
C1_Witness ==
    /\ Fired
    /\ \E e \in DOMAIN world :
        LET u == log["update"]
            sum == VAdd(u.before[e].velocity, u.steps[e].acceleration)
        IN  /\ LengthSquared(sum) > u.cfg.max_speed * u.cfg.max_speed
            /\ world[e].velocity # sum
            /\ world[e].velocity # ZERO

\* C2: in a fire of update, the acceleration added to an agent's velocity has a
\* magnitude of at most max_force, and the velocity written is the old
\* velocity plus that acceleration, limited to max_speed
C2_AccelerationWithinMaxForce ==
    Fired =>
        \A e \in DOMAIN world :
            LET u == log["update"]
                a == u.steps[e].acceleration
            IN  /\ LengthSquared(a) <= u.cfg.max_force * u.cfg.max_force
                /\ world[e].velocity
                     = limit_vec2(VAdd(u.before[e].velocity, a), u.cfg.max_speed)

\* a fire in which the boundary avoidance set both components and the final
\* clamp shortened the acceleration
C2_Witness ==
    /\ Fired
    /\ \E e \in DOMAIN world :
        LET u == log["update"]
            s == u.steps[e]
            p == u.before[e].position
        IN  /\ u.cfg.max_force > 0
            /\ p.x < u.cfg.boundary_min_x \/ p.x > u.cfg.boundary_max_x
            /\ p.y < u.cfg.boundary_min_y \/ p.y > u.cfg.boundary_max_y
            /\ Abs(s.raw.x) = u.cfg.max_force
            /\ Abs(s.raw.y) = u.cfg.max_force
            /\ s.acceleration # s.raw
            /\ s.acceleration # ZERO

\* no other agent of the snapshot is within radius r of agent e; an agent at
\* the very position of e counts as within
Alone(store, e, r) ==
    \A o \in DOMAIN store \ {e} :
        LengthSquared(VSub(store[e].position, store[o].position)) >= r * r

\* agent e of the snapshot has no other agent within any radius update uses
\* (or within 2 * boid_radius)
Isolated(store, e, cfg) ==
    /\ Alone(store, e, cfg.separation_radius)
    /\ Alone(store, e, cfg.alignment_radius)
    /\ Alone(store, e, cfg.cohesion_radius)
    /\ Alone(store, e, cfg.boid_radius * 2)

InsideBoundary(p, cfg) ==
    /\ p.x >= cfg.boundary_min_x /\ p.x <= cfg.boundary_max_x
    /\ p.y >= cfg.boundary_min_y /\ p.y <= cfg.boundary_max_y

\* C4 as stated: in a fire with no target, an agent with no other agent in any
\* radius gets the zero acceleration and keeps its velocity
C4_Original ==
    Fired =>
        \A e \in DOMAIN world :
            LET u == log["update"]
            IN  (u.tgt = None /\ Isolated(u.before, e, u.cfg)) =>
                    /\ u.steps[e].acceleration = ZERO
                    /\ world[e].velocity = u.before[e].velocity

\* C4 amended: in a fire with no target, an agent inside the boundary rectangle
\* with no other agent in any radius gets the zero acceleration, and its
\* velocity after the fire is its velocity before limited to max_speed: the
\* same when its magnitude was at most max_speed, a shorter one otherwise
C4_IsolatedInsideBoundary ==
    Fired =>
        \A e \in DOMAIN world :
            LET u == log["update"]
                v == u.before[e].velocity
                m == u.cfg.max_speed
            IN  (/\ u.tgt = None
                 /\ Isolated(u.before, e, u.cfg)
                 /\ InsideBoundary(u.before[e].position, u.cfg)) =>
                    /\ u.steps[e].sum = ZERO
                    /\ u.steps[e].acceleration = ZERO
                    /\ LengthSquared(v) <= m * m => world[e].velocity = v
                    /\ LengthSquared(v) > m * m =>
                           /\ world[e].velocity # v
                           /\ LengthSquared(world[e].velocity) <= m * m

\* a fire with no target in which an isolated agent inside the boundary, with a
\* velocity within max_speed, kept it
C4_Witness ==
    /\ Fired
    /\ \E e \in DOMAIN world :
        LET u == log["update"]
        IN  /\ u.tgt = None
            /\ Isolated(u.before, e, u.cfg)
            /\ InsideBoundary(u.before[e].position, u.cfg)
            /\ u.before[e].velocity # ZERO
            /\ world[e].velocity = u.before[e].velocity

\* C7 as stated: below boundary_min the component is exactly +max_force before
\* the final clamp, above boundary_max exactly -max_force, and a component in
\* bounds is the weighted sum's
C7_Original ==
    Fired =>
        \A e \in DOMAIN world :
            LET u == log["update"]
                p == u.before[e].position
                s == u.steps[e]
            IN  /\ p.x < u.cfg.boundary_min_x => s.raw.x = u.cfg.max_force
                /\ p.x > u.cfg.boundary_max_x => s.raw.x = -u.cfg.max_force
                /\ p.y < u.cfg.boundary_min_y => s.raw.y = u.cfg.max_force
                /\ p.y > u.cfg.boundary_max_y => s.raw.y = -u.cfg.max_force

\* the value the boundary avoidance leaves on one axis
AxisOverride(c, lo, hi, force, summed) ==
    IF c > hi THEN -force ELSE IF c < lo THEN force ELSE summed

\* C7 amended: before the final clamp a component is exactly -max_force when
\* the position is above boundary_max on its axis (also when it is below
\* boundary_min as well, as it can be when boundary_min > boundary_max),
\* exactly +max_force when the position is below boundary_min and not above
\* boundary_max, and the weighted sum's component otherwise
C7_BoundaryOverride ==
    Fired =>
        \A e \in DOMAIN world :
            LET u == log["update"]
                p == u.before[e].position
                s == u.steps[e]
            IN  /\ s.raw.x = AxisOverride(p.x, u.cfg.boundary_min_x,
                                          u.cfg.boundary_max_x, u.cfg.max_force,
                                          s.sum.x)
                /\ s.raw.y = AxisOverride(p.y, u.cfg.boundary_min_y,
                                          u.cfg.boundary_max_y, u.cfg.max_force,
                                          s.sum.y)

\* a fire in which an agent below boundary_min on x alone had its x component
\* replaced (the weighted sum's was another, non-zero value) and kept the
\* weighted sum's non-zero y component
C7_Witness ==
    /\ Fired
    /\ \E e \in DOMAIN world :
        LET u == log["update"]
            p == u.before[e].position
            s == u.steps[e]
        IN  /\ p.x < u.cfg.boundary_min_x /\ p.x <= u.cfg.boundary_max_x
            /\ p.y >= u.cfg.boundary_min_y /\ p.y <= u.cfg.boundary_max_y
            /\ s.sum.x # 0 /\ s.sum.x # u.cfg.max_force
            /\ s.raw.x = u.cfg.max_force
            /\ s.sum.y # 0 /\ s.raw.y = s.sum.y

\* the velocities of a store, per entity
Velocities(store) == [e \in DOMAIN store |-> store[e].velocity]

\* C8: in every step in which update fires, the velocities it writes are those
\* computed from the population as it was when the fire began: the pass over
\* that population gives the velocities found after the step in every
\* iteration order of the query
C8_SnapshotOrderIndependent ==
    [][(Pending("update") /\ "update" \in DOMAIN log' /\ log'["update"].fired) =>
           \A order \in QueryOrders(DOMAIN world) :
               Velocities(update_pass(order, world, settings, target).store)
                   = Velocities(world')]_vars

\* a fire in which two agents within each other's alignment radius, with
\* different velocities, both had their velocity changed
C8_Witness ==
    /\ Fired
    /\ LET u == log["update"]
       IN  \E a, b \in DOMAIN world :
            /\ a # b
            /\ u.before[a].velocity # u.before[b].velocity
            /\ InRange(u.before[a].position, u.before[b].position,
                       u.cfg.alignment_radius)
            /\ u.cfg.alignment_weight > 0
            /\ world[a].velocity # u.before[a].velocity
            /\ world[b].velocity # u.before[b].velocity

(***************************************************************************)
(* Properties of the neighbour query.                                      *)
(***************************************************************************)
\* the other agents strictly within the radius of the querying agent
WithinRadius(entity, radius) ==
    {o \in DOMAIN world \ {entity} :
        /\ radius > 0
        /\ LengthSquared(VSub(world[entity].position, world[o].position))
             < radius * radius}

\* C3 as stated: every entry find_neighbors returns is another agent at a
\* distance d with 0 < d < radius
C3_Original ==
    phase = "Queried" =>
        \A i \in DOMAIN log.neighbors :
            LET n == log.neighbors[i]
            IN  /\ n[1] # log.entity
                /\ n[1] \in WithinRadius(log.entity, log.radius)
                /\ n[2] # world[log.entity].position

\* C3 amended: find_neighbors returns exactly the other agents at a distance
\* below the radius, never the querying agent, and among them a different
\* agent at the very position of the querying agent (distance 0); the scans of
\* the force functions count exactly the agents at a distance d with
\* 0 < d < radius, so neither the agent itself nor an agent at its position
C3_NeighborQuery ==
    phase = "Queried" =>
        LET e == log.entity
            at == {o \in DOMAIN world : world[o].position = world[e].position}
        IN  /\ {log.neighbors[i][1] : i \in DOMAIN log.neighbors}
                 = WithinRadius(e, log.radius)
            /\ \A i \in DOMAIN log.neighbors :
                   /\ log.neighbors[i][1] = log.order[i]
                   /\ log.neighbors[i][2] = world[log.order[i]].position
                   /\ (log.neighbors[i][3] = 0
                         <=> log.neighbors[i][2] = world[e].position)
            /\ log.separation = Cardinality(WithinRadius(e, log.radius) \ at)
            /\ log.alignment = Cardinality(WithinRadius(e, log.radius) \ at)
            /\ log.cohesion = Cardinality(WithinRadius(e, log.radius) \ at)

\* a query that returned a different agent at the position of the querying
\* agent and one further away, while the scans counted only the latter
C3_Witness ==
    /\ phase = "Queried"
    /\ \E i, j \in DOMAIN log.neighbors :
           /\ log.neighbors[i][2] = world[log.entity].position
           /\ log.neighbors[i][3] = 0
           /\ log.neighbors[j][2] # world[log.entity].position
    /\ log.separation = 1
    /\ log.alignment = 1
    /\ log.cohesion = 1

(***************************************************************************)
(* Properties of the spawner.                                              *)
(***************************************************************************)
\* the positions of a sequence are pairwise at least `spacing` apart
Spaced(positions, spacing) ==
    \A i, j \in DOMAIN positions :
        i # j => ~DistanceLess(positions[i], positions[j], spacing)

\* what setup_boids recorded: the record of a run of its loops
SpawnRecordOk(r) ==
    /\ Len(r.tried) = r.spawn_count
    /\ \A i \in DOMAIN r.tried : r.tried[i] \in 1..SpawnAttempts
    /\ Len(r.positions) <= r.spawn_count
    /\ r.spawn_count - Len(r.positions)
         <= Cardinality({i \in DOMAIN r.tried : r.tried[i] = SpawnAttempts})
    /\ Spaced(r.positions, r.boid_radius * 2)

\* C5: setup_boids, at startup and on respawn, places at most spawn_count
\* agents, pairwise at a distance of at least 2 * boid_radius, tries at most
\* 10 candidates for a slot and goes on to the next slot when all 10 were
\* rejected; when its commands have been applied the population is made of
\* the agents placed
C5_SpawnerInvariant ==
    /\ \A s \in {"setup_boids", "respawn_boids"} :
           (Ran(s) /\ phase # "Idle" /\ log[s].space) => SpawnRecordOk(log[s])
    /\ (phase = "Idle" /\ log.applied) =>
           /\ Cardinality(DOMAIN world) <= population.limit
           /\ DOMAIN world = population.born
           /\ \A a, b \in DOMAIN world :
                  a # b => ~DistanceLess(world[a].position, world[b].position,
                                         population.spacing)

\* a respawn has taken effect in which one slot was skipped after all its
\* candidates were rejected, and an agent was placed
C5_Witness ==
    /\ phase = "Idle" /\ log.applied
    /\ respawns > 0
    /\ world # <<>>
    /\ Cardinality(DOMAIN world) < population.limit

(***************************************************************************)
(* Properties of the schedule of a frame.                                  *)
(***************************************************************************)
\* C9: in every frame update runs before apply_boid_velocity, so that
\* apply_boid_velocity never runs in a frame in which update has not run yet,
\* and when update fired in the frame the positions were advanced with the
\* velocities that fire wrote
C9_Original ==
    (phase = "Update" /\ Ran("apply_boid_velocity")) =>
        /\ Ran("update")
        /\ log["update"].fired =>
               \A e \in DOMAIN world :
                   log["apply_boid_velocity"].before[e].velocity
                       = world[e].velocity

\* C10 as stated: update runs the pass in a frame exactly when the accumulated
\* time has reached the tick_time configured when update runs
C10_Original ==
    (phase = "Update" /\ Ran("update")) =>
        (log["update"].fired
            <=> log["update"].accumulated >= log["update"].tick_time)

\* C10 amended: update runs the pass in a frame exactly when the time
\* accumulated since the last fire (or since setup_boids last ran) has reached
\* the interval, which is the tick_time configured when setup_boids last ran
\* (the configured tick_time itself as long as it has not been edited since);
\* the pass runs once however many intervals elapsed, the time left over is
\* carried on, so the timer repeats; without a fire no velocity changes
C10_FiresWhenIntervalElapsed ==
    (phase = "Update" /\ Ran("update")) =>
        LET u == log["update"]
        IN  /\ u.fired <=> u.accumulated >= u.interval
            /\ edits = 0 => u.interval = u.tick_time
            /\ u.interval \in {c.tick_time : c \in SettingsChoices}
            /\ boid_timer.duration = scheduler.interval
            /\ boid_timer.elapsed = scheduler.accumulated
            /\ boid_timer.elapsed < boid_timer.duration
            /\ u.fired => DOMAIN u.steps = DOMAIN u.before
            /\ ~u.fired =>
                   \A e \in DOMAIN world :
                       world[e].velocity = u.before[e].velocity

\* a second frame in which two whole intervals had elapsed at once and the pass
\* ran (once), after time had been carried over or used up in the first frame
C10_Witness ==
    /\ phase = "Update" /\ Ran("update")
    /\ frame = 2
    /\ log["update"].fired
    /\ log["update"].accumulated >= 2 * log["update"].interval
    /\ log["update"].accumulated < time.elapsed
    /\ \E e \in DOMAIN world :
           world[e].velocity # log["update"].before[e].velocity

\* C6: once the commands of a respawn have been applied, the population is
\* made of agents that respawn created and of no agent that existed before
\* it, it has at most spawn_count agents, and update and apply_boid_velocity
\* read and write only such agents
C6_RespawnReplacesPopulation ==
    commands = <<>> =>
        /\ DOMAIN world = population.born
        /\ DOMAIN world \cap population.retired = {}
        /\ Cardinality(DOMAIN world) <= population.limit
        /\ (phase = "Update" /\ Ran("update")) =>
               DOMAIN log["update"].before = population.born
        /\ (phase = "Update" /\ Ran("apply_boid_velocity")) =>
               DOMAIN log["apply_boid_velocity"].before = population.born

\* a fire of update after a respawn that despawned agents has taken effect
C6_Witness ==
    /\ Fired
    /\ respawns > 0
    /\ commands = <<>>
    /\ population.retired # {}
    /\ world # <<>>
    /\ \E e \in DOMAIN world :
           world[e].velocity # log["update"].before[e].velocity

(***************************************************************************)
(* Properties of the settings.                                             *)
(***************************************************************************)
\* C11: whatever values the settings hold, the startup spawn, a respawn, update
\* and apply_boid_velocity complete: no system ends in a panic
C11_Original == phase # "Panicked"

(***************************************************************************)
(* Properties of the split between update and apply_boid_velocity.         *)
(***************************************************************************)
\* the step is a run of the system
RunOf(system) == Pending(system) /\ system \in DOMAIN log'

\* C12: a run of update leaves every position as it was (and every velocity
\* too when the timer has not finished); a run of apply_boid_velocity leaves
\* every velocity as it was and adds velocity * elapsed_time_factor to every
\* position, whatever the timer's state; a frame ends only after both have
\* run; an agent's velocity changes only in a run of update that fires and
\* its position only in a run of apply_boid_velocity
C12_PositionVelocitySplit ==
    [][/\ RunOf("update") =>
              /\ DOMAIN world' = DOMAIN world
              /\ \A e \in DOMAIN world : world'[e].position = world[e].position
              /\ ~log'["update"].fired => world' = world
       /\ RunOf("apply_boid_velocity") =>
              /\ DOMAIN world' = DOMAIN world
              /\ \A e \in DOMAIN world :
                     /\ world'[e].velocity = world[e].velocity
                     /\ world'[e].position
                          = integrate(world[e].position, world[e].velocity,
                                      elapsed_time_factor(time, settings))
       /\ (phase = "Update" /\ phase' = "Idle") =>
              Ran("update") /\ Ran("apply_boid_velocity")
       /\ \A e \in DOMAIN world \cap DOMAIN world' :
              /\ world'[e].velocity # world[e].velocity =>
                     RunOf("update") /\ log'["update"].fired
              /\ world'[e].position # world[e].position =>
                     RunOf("apply_boid_velocity")]_vars

\* a frame in which update ran without a fire and apply_boid_velocity moved an
\* agent all the same
C12_Witness ==
    /\ phase = "Update"
    /\ Ran("update") /\ ~log["update"].fired
    /\ Ran("apply_boid_velocity")
    /\ \E e \in DOMAIN world :
           /\ world[e].position # log["apply_boid_velocity"].before[e].position
           /\ world[e].velocity = log["apply_boid_velocity"].before[e].velocity
           /\ world[e].velocity = log["update"].before[e].velocity

(***************************************************************************)
(* Properties of the steering forces.                                      *)
(***************************************************************************)
\* the query order the snapshots of a fire are collected in, for a property
\* that does not depend on it
SomeOrder(store) == CHOOSE order \in QueryOrders(DOMAIN store) : TRUE

\* the forces update computes for agent e of the store, before weighting
ForcesOf(store, e, cfg, tgt) ==
    [separation |->
         get_separation_force(store[e].position, store[e].velocity,
                              collect_positions(store, SomeOrder(store)),
                              cfg.separation_radius),
     alignment |->
         get_alignment_force(store[e].position, store[e].velocity,
                             collect_position_velocity(store, SomeOrder(store)),
                             cfg.alignment_radius),
     cohesion |->
         get_cohesion_force(store[e].position, store[e].velocity,
                            collect_positions(store, SomeOrder(store)),
                            cfg.cohesion_radius),
     seek |-> IF tgt # None
              THEN get_seek_force(store[e].position, store[e].velocity, tgt[1])
              ELSE ZERO]

\* C13: every steering force a fire computes, before weighting, has a magnitude
\* of at most max_force; seek is the zero vector when the target is the
\* agent's position, and separation, alignment and cohesion are the zero
\* vector when no other agent is in their radius
C13_Original ==
    Fired =>
        \A e \in DOMAIN log["update"].before :
            LET u == log["update"]
                f == ForcesOf(u.before, e, u.cfg, u.tgt)
                m == u.cfg.max_force * u.cfg.max_force
            IN  /\ LengthSquared(f.separation) <= m
                /\ LengthSquared(f.alignment) <= m
                /\ LengthSquared(f.cohesion) <= m
                /\ LengthSquared(f.seek) <= m
                /\ (u.tgt # None /\ u.tgt[1] = u.before[e].position) =>
                       f.seek = ZERO
                /\ Alone(u.before, e, u.cfg.separation_radius) =>
                       f.separation = ZERO
                /\ Alone(u.before, e, u.cfg.alignment_radius) =>
                       f.alignment = ZERO
                /\ Alone(u.before, e, u.cfg.cohesion_radius) =>
                       f.cohesion = ZERO

\* C14: the collision force of an agent in a fire is the separation formula
\* with the radius 2 * boid_radius, so that an agent at a distance d with
\* boid_radius <= d < 2 * boid_radius contributes to it
C14_Original ==
    Fired =>
        \A e \in DOMAIN log["update"].before :
            LET u == log["update"]
            IN  collision_force(u.before[e].position, u.before[e].velocity,
                                collect_positions(u.before, SomeOrder(u.before)),
                                u.cfg)
                  = get_separation_force(
                        u.before[e].position, u.before[e].velocity,
                        collect_positions(u.before, SomeOrder(u.before)),
                        2 * u.cfg.boid_radius)

(***************************************************************************)
(* Properties of the position integration.                                 *)
(***************************************************************************)
\* seconds since startup * velocity_time_scale, for a time in milliseconds
FactorAt(ms, scale) == FMul(TDiv(ms * Q, 1000), scale)

\* C15: the displacement apply_boid_velocity adds to a position in a frame is
\* velocity * (time elapsed since startup * velocity_time_scale), whatever
\* the frame's own duration; with velocity_time_scale > 0 the factor is
\* larger than the factor of the frame before, and the displacement of a
\* velocity is on neither axis smaller than the one the same velocity had in
\* the frame before
C15_ElapsedTimeFactor ==
    (phase = "Update" /\ Ran("apply_boid_velocity")) =>
        LET a == log["apply_boid_velocity"]
            now == FactorAt(time.elapsed, settings.velocity_time_scale)
            earlier == FactorAt(time.elapsed - time.delta,
                                settings.velocity_time_scale)
        IN  /\ a.factor = now
            /\ settings.velocity_time_scale > 0 => now > earlier
            /\ \A e \in DOMAIN world :
                   LET v == a.before[e].velocity
                   IN  /\ world[e].position
                            = VAdd(a.before[e].position, VMul(v, now))
                       /\ Abs(VMul(v, now).x) >= Abs(VMul(v, earlier).x)
                       /\ Abs(VMul(v, now).y) >= Abs(VMul(v, earlier).y)

\* a second frame, shorter than the first, in which an agent was moved further
\* than its velocity would have moved it in the first frame, and not by
\* velocity * (the frame's duration * velocity_time_scale)
C15_Witness ==
    /\ phase = "Update" /\ Ran("apply_boid_velocity")
    /\ frame = 2
    /\ time.delta < time.elapsed - time.delta
    /\ \E e \in DOMAIN world :
        LET a == log["apply_boid_velocity"]
            v == a.before[e].velocity
            step == VSub(world[e].position, a.before[e].position)
        IN  /\ v # ZERO
            /\ LengthSquared(step)
                 > LengthSquared(VMul(v, FactorAt(time.elapsed - time.delta,
                                                  settings.velocity_time_scale)))
            /\ step # VMul(v, FactorAt(time.delta, settings.velocity_time_scale))

====
